---- MODULE Spec2Model ----
(***************************************************************************)
(* State-machine model of src/stock_app.py, a Streamlit script.  One       *)
(* "run" is one execution of the script from top to bottom; the script is  *)
(* re-run on every user interaction.  The only state that survives a run   *)
(* is the widget state (stock_id, auto_tune), the import result            *)
(* PROPHET_AVAILABLE and the st.cache_data cache of load_data.             *)
(*                                                                         *)
(* Prices are integers; every quotient the script computes in floating     *)
(* point is kept as an exact fraction [num, den], and NaN is a separate    *)
(* value whose comparisons are all false, as in Python.                    *)
(***************************************************************************)
EXTENDS Integers, Sequences, FiniteSets

VARIABLES
    PROPHET_AVAILABLE,  \* result of the guarded import, lines 10-14
    stock_id,           \* sidebar text input, line 62
    auto_tune,          \* sidebar checkbox, line 63
    clicked,            \* the button whose click started this run
    cache,              \* st.cache_data store of load_data, keyed by sid
    pc,                 \* position of the running script
    status,             \* how the current / last run stands
    fetch,              \* outcome of the provider call made in this run
    df,                 \* the script's df, line 69
    signal,             \* tab1 report, lines 94-97
    forecast,           \* tab2 result, lines 108-135
    calib,              \* tab3 figures, lines 143-155
    rendered            \* buttons drawn by the last run that reached them

vars == <<PROPHET_AVAILABLE, stock_id, auto_tune, clicked, cache, pc, status,
          fetch, df, signal, forecast, calib, rendered>>

----------------------------------------------------------------------------
(* Program constants *)

SMA_LENGTH == 20
PERIODS == 7
ERROR_THRESHOLD == 5
FLEX_HIGH == 50     \* 0.5  in hundredths
FLEX_LOW == 5       \* 0.05 in hundredths

(* Bounds of the model *)

MaxLen == 21        \* longest series the provider returns

Sids == {"2330.TW", "2317.TW"}
BasePrices == {95, 100}
LastPrices == {90, 96, 100, 105}
Lengths == {1} \cup ((SMA_LENGTH - 1)..MaxLen)

BarColumns == {"Open", "High", "Low", "Close", "Volume"}

----------------------------------------------------------------------------
(* Exact fractions standing for Python floats *)

R(n, d) == [nan |-> FALSE, num |-> n, den |-> d]
RInt(i) == R(i, 1)
NaN == [nan |-> TRUE, num |-> 0, den |-> 1]

Abs(i) == IF i < 0 THEN -i ELSE i

RSub(a, b) ==
    IF a.nan \/ b.nan THEN NaN
    ELSE R(a.num * b.den - b.num * a.den, a.den * b.den)

RAbs(a) == IF a.nan THEN NaN ELSE R(Abs(a.num), a.den)

\* a / b for b > 0 (closing prices are positive)
RDiv(a, b) ==
    IF a.nan \/ b.nan THEN NaN ELSE R(a.num * b.den, a.den * b.num)

RMul(a, b) ==
    IF a.nan \/ b.nan THEN NaN ELSE R(a.num * b.num, a.den * b.den)

\* a > b; false when either side is NaN
RGt(a, b) == ~a.nan /\ ~b.nan /\ a.num * b.den > b.num * a.den

----------------------------------------------------------------------------
(* Data frames *)

NoneDf == [none |-> TRUE, Close |-> <<>>, columns |-> {}]
Frame(closes) == [none |-> FALSE, Close |-> closes, columns |-> BarColumns]

Series(n, base, last) == [i \in 1..n |-> IF i = n THEN last ELSE base]

ProviderSeries ==
    {Series(n, b, l) : n \in Lengths, b \in BasePrices, l \in LastPrices}

\* what yf.download can do: return bars, return an empty frame, or raise
FetchOutcomes ==
    {[kind |-> "ok", Close |-> s] : s \in ProviderSeries}
    \cup {[kind |-> "empty", Close |-> <<>>], [kind |-> "error", Close |-> <<>>]}

RECURSIVE SumRange(_, _, _)
SumRange(s, lo, hi) == IF lo > hi THEN 0 ELSE s[hi] + SumRange(s, lo, hi - 1)

Last(s) == s[Len(s)]

----------------------------------------------------------------------------
(* load_data and its cache, lines 20-29 *)

Absent == [present |-> FALSE, val |-> NoneDf]
Cached(d) == [present |-> TRUE, val |-> d]

\* load_data without its df.empty test: the empty frame itself is returned
load_data_keeps_empty(f) ==
    IF f.kind = "error" THEN NoneDf ELSE Frame(f.Close)

\* the body of load_data for one outcome of yf.download
load_data(f) ==
    IF f.kind = "error" THEN NoneDf            \* except Exception: return None
    ELSE IF f.Close = <<>> THEN NoneDf         \* if df.empty: return None
    ELSE Frame(f.Close)

\* a cache that keeps successful results only
cache_store_skips_none(c, sid, d) ==
    IF d.none THEN c ELSE [c EXCEPT ![sid] = Cached(d)]

\* st.cache_data stores whatever load_data returned, None included
cache_store(c, sid, d) == [c EXCEPT ![sid] = Cached(d)]

\* st.cache_data.clear()
cache_clear(c) == [s \in Sids |-> Absent]

\* line 71: if df is None or df.empty
has_no_data(d) == d.none \/ d.Close = <<>>

----------------------------------------------------------------------------
(* Indicators, lines 79-87 *)

\* ta.sma(close, length=20) at 1-based position i, for a series of at least
\* SMA_LENGTH bars: NaN inside the first window, the trailing mean after it
sma(closes, i) ==
    IF i < SMA_LENGTH THEN NaN
    ELSE R(SumRange(closes, i - SMA_LENGTH + 1, i), SMA_LENGTH)

\* the indicator assigned over the Close column instead of beside it
with_indicators_overwrites(d) ==
    [d EXCEPT !.Close = [i \in 1..Len(@) |-> 0],
              !.columns = @ \cup {"MA20", "RSI"}]

\* df['MA20'] = ...; df['RSI'] = ...  (column assignment on the run's df)
with_indicators(d) == [d EXCEPT !.columns = @ \cup {"MA20", "RSI"}]

\* float(df['Close'].iloc[-1])
last_close_of(d) == RInt(Last(d.Close))

\* the report with >= in place of >
report_signal_ge(last_close, current_ma20) ==
    IF ~current_ma20.nan /\ ~RGt(current_ma20, last_close)
    THEN "bullish" ELSE "bearish"

\* lines 94-97: the two-way report
report_signal(last_close, current_ma20) ==
    IF RGt(last_close, current_ma20) THEN "bullish" ELSE "bearish"

----------------------------------------------------------------------------
(* Forecast models, lines 31-58 and 108-122 *)

\* line 110
flex_value(auto) == IF auto THEN FLEX_HIGH ELSE FLEX_LOW

\* the forecast branch without its availability test
model_selected_always_prophet(available) == "prophet"

\* line 108: which model a forecast request runs
model_selected(available) == IF available THEN "prophet" ELSE "linear"

\* ran: the models invoked; report: the model named in the page's heading
NoForecast ==
    [ran |-> {}, flex |-> 0, error |-> "", values |-> <<>>, report |-> "-"]

RECURSIVE SumXY(_, _)
\* sum of x*y with x = 0..n-1 the bar ordinal
SumXY(y, n) == IF n = 0 THEN 0 ELSE (n - 1) * y[n] + SumXY(y, n - 1)

RECURSIVE SumSq(_)
\* 0^2 + 1^2 + ... + (n-1)^2
SumSq(n) == IF n = 0 THEN 0 ELSE (n - 1) * (n - 1) + SumSq(n - 1)

SumX(n) == (n * (n - 1)) \div 2

\* np.polyfit(x, y, 1) by the normal equations; den = 0 iff fewer than 2 bars
polyfit1(y) ==
    LET n == Len(y)
        sy == SumRange(y, 1, n)
    IN  [slope     |-> n * SumXY(y, n) - SumX(n) * sy,
         intercept |-> sy * SumSq(n) - SumX(n) * SumXY(y, n),
         den       |-> n * SumSq(n) - SumX(n) * SumX(n)]

\* run_backup_model for a series of at least 2 bars: slope * future_x + intercept
backup_values(y) ==
    LET n == Len(y)
        fit == polyfit1(y)
    IN  [k \in 1..PERIODS |->
            R(fit.slope * (n + k - 1) + fit.intercept, fit.den)]

\* run_prophet_model: the fitted values are the library's; only the
\* configuration that reaches the model is kept
prophet_forecast(d, flex) ==
    IF Len(d.Close) < 2
    THEN [ran |-> {"prophet"}, flex |-> flex, error |-> "ValueError",
          values |-> <<>>, report |-> "-"]
    ELSE [ran |-> {"prophet"}, flex |-> flex, error |-> "",
          values |-> <<>>, report |-> "prophet"]

\* the outcomes of run_backup_model.  On a single bar np.polyfit divides the
\* Vandermonde column by a zero norm: the least-squares solver then either
\* raises LinAlgError or hands back NaN coefficients, depending on the LAPACK
backup_forecasts(d) ==
    IF Len(d.Close) < 2
    THEN {[ran |-> {"linear"}, flex |-> 0, error |-> "LinAlgError",
           values |-> <<>>, report |-> "-"],
          [ran |-> {"linear"}, flex |-> 0, error |-> "",
           values |-> [k \in 1..PERIODS |-> NaN], report |-> "linear"]}
    ELSE {[ran |-> {"linear"}, flex |-> 0, error |-> "",
           values |-> backup_values(d.Close), report |-> "linear"]}

----------------------------------------------------------------------------
(* Calibration figures, lines 143-152 *)

NoCalib ==
    [done |-> FALSE, actual |-> NaN, predicted |-> NaN, error |-> NaN,
     triggered |-> FALSE]

\* line 145
predicted_of(d) ==
    IF Len(d.Close) > 1
    THEN IF Len(d.Close) < SMA_LENGTH THEN NaN
         ELSE sma(d.Close, Len(d.Close) - 1)
    ELSE last_close_of(d)

\* line 146
error_pct(actual, predicted) ==
    RMul(RDiv(RAbs(RSub(actual, predicted)), actual), RInt(100))

\* the threshold test with >= in place of >
recalibration_triggered_ge(error) ==
    ~error.nan /\ ~RGt(RInt(ERROR_THRESHOLD), error)

\* line 152
recalibration_triggered(error) == RGt(error, RInt(ERROR_THRESHOLD))

calibration(d) ==
    LET actual == last_close_of(d)
        predicted == predicted_of(d)
        error == error_pct(actual, predicted)
    IN  [done |-> TRUE, actual |-> actual, predicted |-> predicted,
         error |-> error, triggered |-> recalibration_triggered(error)]

----------------------------------------------------------------------------
(* The script, one step per block *)

Init ==
    /\ PROPHET_AVAILABLE \in BOOLEAN
    /\ stock_id = "2330.TW"
    /\ auto_tune = FALSE
    /\ clicked = "none"
    /\ cache = [s \in Sids |-> Absent]
    /\ pc = "load"
    /\ status = "running"
    /\ fetch = "-"
    /\ df = NoneDf
    /\ signal = "-"
    /\ forecast = NoForecast
    /\ calib = NoCalib
    /\ rendered = {}

\* A user interaction re-runs the script from the top with fresh locals.
\* Editing a sidebar widget changes its value; clicking a button that the
\* last run drew leaves the widgets as they are.
UserRerun ==
    /\ pc = "idle"
    /\ \E sid \in Sids, at \in BOOLEAN, c \in {"none"} \cup rendered :
          /\ c # "none" => (sid = stock_id /\ at = auto_tune)
          /\ stock_id' = sid
          /\ auto_tune' = at
          /\ clicked' = c
    /\ pc' = "load"
    /\ status' = "running"
    /\ fetch' = "-"
    /\ df' = NoneDf
    /\ signal' = "-"
    /\ forecast' = NoForecast
    /\ calib' = NoCalib
    /\ rendered' = {}
    /\ UNCHANGED <<PROPHET_AVAILABLE, cache>>

\* The 3600-second TTL of a cached entry runs out.  The cache is read once
\* per run, at its first step, so expiry is taken between runs.
TTLExpire ==
    /\ pc = "idle"
    /\ \E sid \in Sids :
          /\ cache[sid].present
          /\ cache' = [cache EXCEPT ![sid] = Absent]
    /\ UNCHANGED <<PROPHET_AVAILABLE, stock_id, auto_tune, clicked, pc, status,
                   fetch, df, signal, forecast, calib, rendered>>

\* line 69, cache hit: the stored value is handed back (a copy of it)
LoadDataHit ==
    /\ pc = "load"
    /\ cache[stock_id].present
    /\ df' = cache[stock_id].val
    /\ pc' = "main"
    /\ UNCHANGED <<PROPHET_AVAILABLE, stock_id, auto_tune, clicked, cache,
                   status, fetch, signal, forecast, calib, rendered>>

\* line 69, cache miss: load_data runs and its return value is stored
LoadDataMiss ==
    /\ pc = "load"
    /\ ~cache[stock_id].present
    /\ \E f \in FetchOutcomes :
          /\ fetch' = f.kind
          /\ df' = load_data(f)
          /\ cache' = cache_store(cache, stock_id, load_data(f))
    /\ pc' = "main"
    /\ UNCHANGED <<PROPHET_AVAILABLE, stock_id, auto_tune, clicked, status,
                   signal, forecast, calib, rendered>>

\* lines 71-72: the error state ends the run
NoData ==
    /\ pc = "main"
    /\ has_no_data(df)
    /\ pc' = "idle"
    /\ status' = "nodata"
    /\ UNCHANGED <<PROPHET_AVAILABLE, stock_id, auto_tune, clicked, cache,
                   fetch, df, signal, forecast, calib, rendered>>

\* lines 73-74
EnterTabs ==
    /\ pc = "main"
    /\ ~has_no_data(df)
    /\ pc' = "tab1"
    /\ UNCHANGED <<PROPHET_AVAILABLE, stock_id, auto_tune, clicked, cache,
                   status, fetch, df, signal, forecast, calib, rendered>>

\* lines 77-100 on a series of at least SMA_LENGTH bars
Tab1 ==
    /\ pc = "tab1"
    /\ Len(df.Close) >= SMA_LENGTH
    /\ df' = with_indicators(df)
    /\ signal' = report_signal(last_close_of(df), sma(df.Close, Len(df.Close)))
    /\ pc' = "tab2"
    /\ UNCHANGED <<PROPHET_AVAILABLE, stock_id, auto_tune, clicked, cache,
                   status, fetch, forecast, calib, rendered>>

\* lines 77-100 on a shorter series, with a pandas_ta whose sma returns an
\* all-NaN column: float(nan) is taken and every comparison with it is false
Tab1ShortNaN ==
    /\ pc = "tab1"
    /\ Len(df.Close) < SMA_LENGTH
    /\ df' = with_indicators(df)
    /\ signal' = report_signal(last_close_of(df), NaN)
    /\ pc' = "tab2"
    /\ UNCHANGED <<PROPHET_AVAILABLE, stock_id, auto_tune, clicked, cache,
                   status, fetch, forecast, calib, rendered>>

\* lines 77-86 on a shorter series, with a pandas_ta whose sma returns None:
\* the column holds None and float(None) raises TypeError at line 86
Tab1ShortNone ==
    /\ pc = "tab1"
    /\ Len(df.Close) < SMA_LENGTH
    /\ df' = with_indicators(df)
    /\ status' = "crashed"
    /\ pc' = "idle"
    /\ UNCHANGED <<PROPHET_AVAILABLE, stock_id, auto_tune, clicked, cache,
                   fetch, signal, forecast, calib, rendered>>

\* lines 103-135 when the forecast button was the interaction
Tab2Forecast ==
    /\ pc = "tab2"
    /\ clicked = "forecast"
    /\ rendered' = rendered \cup {"forecast"}
    /\ \E fc \in (IF model_selected(PROPHET_AVAILABLE) = "prophet"
                  THEN {prophet_forecast(df, flex_value(auto_tune))}
                  ELSE backup_forecasts(df)) :
          /\ forecast' = fc
          /\ IF fc.error = ""
             THEN pc' = "tab3" /\ status' = status
             ELSE pc' = "idle" /\ status' = "crashed"
    /\ UNCHANGED <<PROPHET_AVAILABLE, stock_id, auto_tune, clicked, cache,
                   fetch, df, signal, calib>>

\* lines 103-106 otherwise: the button is drawn and returns False
Tab2Skip ==
    /\ pc = "tab2"
    /\ clicked # "forecast"
    /\ rendered' = rendered \cup {"forecast"}
    /\ pc' = "tab3"
    /\ UNCHANGED <<PROPHET_AVAILABLE, stock_id, auto_tune, clicked, cache,
                   status, fetch, df, signal, forecast, calib>>

\* a calibration step that switches auto-tune on when the error is high
Tab3CalibrationEscalates ==
    /\ pc = "tab3"
    /\ calib' = calibration(df)
    /\ auto_tune' = (auto_tune \/ calibration(df).triggered)
    /\ pc' = "reset"
    /\ UNCHANGED <<PROPHET_AVAILABLE, stock_id, clicked, cache,
                   status, fetch, df, signal, forecast, rendered>>

\* lines 138-155
Tab3Calibration ==
    /\ pc = "tab3"
    /\ calib' = calibration(df)
    /\ pc' = "reset"
    /\ UNCHANGED <<PROPHET_AVAILABLE, stock_id, auto_tune, clicked, cache,
                   status, fetch, df, signal, forecast, rendered>>

\* lines 157-159 when the reset button was the interaction
ResetClicked ==
    /\ pc = "reset"
    /\ clicked = "reset"
    /\ rendered' = rendered \cup {"reset"}
    /\ cache' = cache_clear(cache)
    /\ pc' = "idle"
    /\ status' = "ok"
    /\ UNCHANGED <<PROPHET_AVAILABLE, stock_id, auto_tune, clicked, fetch, df,
                   signal, forecast, calib>>

\* line 157 otherwise
ResetSkip ==
    /\ pc = "reset"
    /\ clicked # "reset"
    /\ rendered' = rendered \cup {"reset"}
    /\ pc' = "idle"
    /\ status' = "ok"
    /\ UNCHANGED <<PROPHET_AVAILABLE, stock_id, auto_tune, clicked, cache,
                   fetch, df, signal, forecast, calib>>

Next ==
    \/ UserRerun
    \/ TTLExpire
    \/ LoadDataHit
    \/ LoadDataMiss
    \/ NoData
    \/ EnterTabs
    \/ Tab1
    \/ Tab1ShortNaN
    \/ Tab1ShortNone
    \/ Tab2Forecast
    \/ Tab2Skip
    \/ Tab3Calibration
    \/ ResetClicked
    \/ ResetSkip

Spec == Init /\ [][Next]_vars

----------------------------------------------------------------------------
(* Properties *)

InRun == pc \in {"tab1", "tab2", "tab3", "reset"}

\* the closes of the trailing SMA_LENGTH-bar window, and their sums
Window(closes) ==
    [i \in 1..SMA_LENGTH |-> closes[Len(closes) - SMA_LENGTH + i]]

RECURSIVE SumSquares(_, _)
SumSquares(s, hi) == IF hi = 0 THEN 0 ELSE s[hi] * s[hi] + SumSquares(s, hi - 1)

\* Bollinger bands over the SMA window with k = 2 and the sample standard
\* deviation: close >= mid + 2*sd, with S and Q the window's sum and sum of
\* squares, is  20c - S >= 0  and  19 (20c - S)^2 >= 80 (20 Q - S^2)
BandExcess(closes) ==
    LET w == Window(closes)
        S == SumRange(w, 1, SMA_LENGTH)
        Q == SumSquares(w, SMA_LENGTH)
        dev == SMA_LENGTH * Last(closes) - S
    IN  [dev |-> dev,
         out |-> (SMA_LENGTH - 1) * dev * dev
                    >= 4 * SMA_LENGTH * (SMA_LENGTH * Q - S * S)]

AtOrAboveUpper(closes) ==
    BandExcess(closes).dev >= 0 /\ BandExcess(closes).out

AtOrBelowLower(closes) ==
    BandExcess(closes).dev <= 0 /\ BandExcess(closes).out

AboveSma(closes) ==
    SMA_LENGTH * Last(closes) > SumRange(Window(closes), 1, SMA_LENGTH)

SmaDefined == ~df.none /\ Len(df.Close) >= SMA_LENGTH

C2_UndefinedSmaNeutral ==
    (~df.none /\ "MA20" \in df.columns /\ Len(df.Close) < SMA_LENGTH) =>
        signal = "neutral"

\* C3: recalibration is reported exactly when |actual - predicted| * 100 >
\* 5 * actual, for every defined predicted; predicted 100 with actual 96 is
\* not triggered, with actual 90 is triggered, and an error of exactly 5% is
\* not triggered.
C3_ThresholdStrict ==
    (calib.done /\ ~calib.predicted.nan) =>
        LET a == Last(df.Close)
            pn == calib.predicted.num
            pd == calib.predicted.den
            diff == Abs(a * pd - pn)
        IN  /\ calib.actual = RInt(a)
            /\ calib.triggered <=> (diff * 100 > 5 * a * pd)
            /\ (pn = 100 * pd /\ a = 96) => ~calib.triggered
            /\ (pn = 100 * pd /\ a = 90) => calib.triggered
            /\ (diff * 100 = 5 * a * pd) => ~calib.triggered

\* C3 witness: a check whose error is exactly 5% and is not triggered.
C3_Witness ==
    /\ calib.done
    /\ ~calib.predicted.nan
    /\ Abs(Last(df.Close) * calib.predicted.den - calib.predicted.num) * 100
          = 5 * Last(df.Close) * calib.predicted.den
    /\ ~calib.triggered

\* C4: the flexibility a forecast uses is 0.5 with auto-tune on and 0.05 with
\* it off, and a calibration check, triggered or not, changes neither the
\* auto-tune setting nor any other input of a forecast.
C4_FlagAdvisory ==
    /\ [](("prophet" \in forecast.ran) =>
            forecast.flex = IF auto_tune THEN 50 ELSE 5)
    /\ [][pc = "tab3" =>
            /\ auto_tune' = auto_tune
            /\ PROPHET_AVAILABLE' = PROPHET_AVAILABLE
            /\ stock_id' = stock_id
            /\ df' = df
            /\ forecast' = forecast
            /\ cache' = cache]_vars

\* C4 witness: a run whose forecast used the low flexibility and whose
\* calibration check then triggered, auto-tune still off.
C4_Witness ==
    /\ forecast.ran = {"prophet"}
    /\ forecast.flex = FLEX_LOW
    /\ calib.done
    /\ calib.triggered
    /\ ~auto_tune

\* C5: a requested forecast runs exactly one model, the linear fallback
\* when the primary is unavailable; the model named to the caller is the one
\* that ran; and the fallback yields PERIODS values on any series it can fit.
C5_ModelKind ==
    /\ (clicked = "forecast" /\ pc \in {"tab3", "reset"}) => forecast.ran # {}
    /\ forecast.ran # {} =>
          /\ clicked = "forecast"
          /\ Cardinality(forecast.ran) = 1
          /\ forecast.ran = {IF PROPHET_AVAILABLE THEN "prophet" ELSE "linear"}
          /\ forecast.error = "" => forecast.ran = {forecast.report}
          /\ forecast.error # "" => forecast.report = "-"
          /\ (~PROPHET_AVAILABLE /\ Len(df.Close) >= 2) =>
                /\ forecast.error = ""
                /\ Len(forecast.values) = PERIODS
                /\ \A k \in 1..PERIODS : ~forecast.values[k].nan

\* C5 witness: the primary unavailable, the fallback ran and is the model
\* reported.
C5_Witness ==
    /\ ~PROPHET_AVAILABLE
    /\ forecast.ran = {"linear"}
    /\ forecast.report = "linear"
    /\ forecast.error = ""
    /\ Len(forecast.values) = PERIODS

\* C6: after an empty or failed fetch load_data gives None, the run ends in
\* the no-data state, and no indicator, signal, forecast or calibration step
\* runs.
C6_NoDataState ==
    (fetch \in {"empty", "error"} \/ (pc # "load" /\ df.none)) =>
        /\ df = NoneDf
        /\ pc \in {"main", "idle"}
        /\ pc = "main" => status = "running"
        /\ pc = "idle" => status = "nodata"
        /\ signal = "-"
        /\ forecast = NoForecast
        /\ calib = NoCalib
        /\ rendered = {}

\* C6 witness: a run whose fetch failed, ended in the no-data state.
C6_Witness ==
    /\ fetch = "error"
    /\ pc = "idle"
    /\ status = "nodata"

\* C7 as stated: a forecast over fewer than fit_degree + 1 = 2 bars fails
\* with InsufficientDataError and produces no forecast values.
C7_InsufficientData ==
    (forecast.ran # {} /\ Len(df.Close) < 2) =>
        /\ forecast.error = "InsufficientDataError"
        /\ forecast.values = <<>>

C9_AppendOnlyLog ==
    [][LET Log(c) == IF c.done THEN <<c>> ELSE <<>>
           IsReset == pc = "reset" /\ clicked = "reset"
       IN  /\ pc = "tab3" => Len(Log(calib')) = Len(Log(calib)) + 1
           /\ IsReset => Log(calib') = <<>>
           /\ ~IsReset => Len(Log(calib')) >= Len(Log(calib))]_vars

\* C10: load_data for a cached sid returns the cached value, None included,
\* without a provider call; a miss calls the provider and caches whatever
\* load_data returns; an entry leaves the cache only by TTL expiry or by the
\* reset button, which empties the cache.
C10_CacheKeepsNoData ==
    [][/\ (pc = "load" /\ cache[stock_id].present) =>
             /\ df' = cache[stock_id].val
             /\ fetch' = "-"
             /\ cache' = cache
       /\ (pc = "load" /\ ~cache[stock_id].present) =>
             /\ fetch' \in {"ok", "empty", "error"}
             /\ cache'[stock_id] = Cached(df')
             /\ \A s \in Sids \ {stock_id} : cache'[s] = cache[s]
       /\ (pc = "reset" /\ clicked = "reset") =>
             \A s \in Sids : ~cache'[s].present
       /\ (pc \notin {"load", "idle"} /\ ~(pc = "reset" /\ clicked = "reset"))
             => cache' = cache
       /\ \A s \in Sids :
             (cache[s].present /\ cache'[s].present) => cache'[s] = cache[s]]_vars

\* C10 witness: a run served the no-data value from the cache, after a
\* failed fetch, without calling the provider.
C10_Witness ==
    /\ pc = "main"
    /\ fetch = "-"
    /\ df.none
    /\ cache[stock_id] = Cached(NoneDf)

====
